---- MODULE Spec2Model ----
(***************************************************************************)
(* Section-structure inference and page-range resolution of the report     *)
(* site generator: the outline loader (site/extract_report_structure.py),  *)
(* the range resolver (web/build_redesigned_site.py), the one-time         *)
(* full-text extraction (web/extract_full_text_once.py) and the page-by-   *)
(* page site builder (site/build_pdf_site.py).                             *)
(***************************************************************************)
EXTENDS Integers, Sequences, FiniteSets, TLC

\* ------------------------------------------------------------------ bounds
\* longest outline (number of TocEntry values) explored
MaxLen == 3
\* largest doc.page_count explored; entry pages range over 0..MaxPageCount+1
MaxPageCount == 3
\* longest bookmark list doc.get_toc() returns
MaxBookmarks == 3

\* ------------------------------------------------------------- vocabulary
ExecSummary == "Executive Summary"
TableOfContents == "Table of Contents"
Titles == {ExecSummary, TableOfContents, "Introduction"}
\* a title no outline entry carries, to query a missing key
AbsentTitle == "Timeline"
Pages == 0 .. (MaxPageCount + 1)
\* TocEntry(level, title, page): level-1 entries with every title and page,
\* and one kind of nested (level-2) entry
TocEntry == [level : {1}, title : Titles, page : Pages]
              \cup [level : {2}, title : {"Introduction"}, page : {1}]
Outlines == UNION {[1 .. n -> TocEntry] : n \in 0 .. MaxLen}
\* Python's None
None == <<>>

Max(a, b) == IF a >= b THEN a ELSE b
Min(a, b) == IF a <= b THEN a ELSE b

VARIABLES
  toc,                \* list[TocEntry] returned by _load_outline_toc
  last_page,          \* page cap used by range resolution
  pc,                 \* position of the run
  ranges,             \* list of (entry, end) made by _compute_ranges
  ranges_all_level1,  \* dict title -> (start, end)
  title,              \* the title last passed to _get_range_for_title
  rng,                \* what _get_range_for_title returned
  manifest,           \* manifest["entries"] written by extract_level1_to_files
  loaded,             \* page numbers p whose page (index p - 1) was loaded
  doc_toc,            \* doc.get_toc(simple=True): the bookmark triples
  outline_toc,        \* the list out that _extract_outline_toc builds
  k,                  \* index of the next bookmark of its for loop
  runs,               \* per run of the two programs: locals, JSON, toc, ranges
  call,               \* the arguments and return values of the call under study
  scan                \* the locals and files of the page loop under study

resolverVars == <<toc, last_page, ranges, ranges_all_level1, title, rng,
                  manifest, loaded>>
outlineVars == <<doc_toc, outline_toc, k>>
vars == <<toc, last_page, pc, ranges, ranges_all_level1, title, rng,
          manifest, loaded, doc_toc, outline_toc, k, runs, call, scan>>

\* a part of the program that a run does not exercise stays as constructed
ResolverIdle ==
  /\ toc = <<>>
  /\ last_page = 1
  /\ ranges = <<>>
  /\ ranges_all_level1 = <<>>
  /\ title = ""
  /\ rng = None
  /\ manifest = <<>>
  /\ loaded = {}
OutlineIdle == doc_toc = <<>> /\ outline_toc = <<>> /\ k = 0
StructIdle == runs = <<>>
TextIdle == call = <<>>
PageIdle == scan = <<>>

\* --------------------------------------------------------- the outline loader
\* characters: titles are sequences of them; NBSP stands for U+00A0
NBSP == "nbsp"
\* the characters \s matches
Whitespace == {" ", "\t", "\n", "\r", NBSP}
\* the characters of .strip(" \t\r\n\u00a0")
StripChars == {" ", "\t", "\r", "\n", NBSP}

RECURSIVE SkipWhitespace(_)
SkipWhitespace(s) ==
  IF s # <<>> /\ Head(s) \in Whitespace THEN SkipWhitespace(Tail(s)) ELSE s

RECURSIVE CollapseWhitespace(_)
\* re.sub(r"\s+", " ", line)
CollapseWhitespace(s) ==
  IF s = <<>> THEN <<>>
  ELSE IF Head(s) \in Whitespace
       THEN <<" ">> \o CollapseWhitespace(SkipWhitespace(Tail(s)))
       ELSE <<Head(s)>> \o CollapseWhitespace(Tail(s))

RECURSIVE LStrip(_)
LStrip(s) == IF s # <<>> /\ Head(s) \in StripChars THEN LStrip(Tail(s)) ELSE s

RECURSIVE RStrip(_)
RStrip(s) ==
  IF s # <<>> /\ s[Len(s)] \in StripChars THEN RStrip(SubSeq(s, 1, Len(s) - 1))
  ELSE s

\* a normalisation that collapses but does not strip
clean_line_NoStrip(line) == CollapseWhitespace(line)
\* _clean_line(line)
clean_line(line) == RStrip(LStrip(CollapseWhitespace(line)))

\* titles as the document's metadata may hold them
RawTitles ==
  { <<>>, <<" ">>, <<NBSP, "\t">>, <<"a">>, <<" ", "a", NBSP>>,
    <<"a", " ", "\t", "b">> }
\* (level, page) of a bookmark: in range, page 0, beyond the last page
LevelsAndPages == {<<1, 1>>, <<2, 0>>, <<1, MaxPageCount + 1>>}
Bookmark ==
  {[level |-> lp[1], title |-> t, page |-> lp[2]] : lp \in LevelsAndPages, t \in RawTitles}
BookmarkLists == UNION {[1 .. n -> Bookmark] : n \in 0 .. MaxBookmarks}

\* the loop body without the "if title:" test
OutlineAppend_KeepEmpty(o, b) ==
  Append(o, [level |-> b.level, title |-> clean_line(b.title), page |-> b.page])

\* the loop body of _extract_outline_toc on bookmark b, the list so far o
OutlineAppend(o, b) ==
  LET t == clean_line(b.title)
  IN IF t # <<>> THEN Append(o, [level |-> b.level, title |-> t, page |-> b.page])
     ELSE o

\* ------------------------------------------------------- the range resolver
RECURSIVE SelectLevel1(_)
\* [e for e in toc if e.level == 1]
SelectLevel1(s) ==
  IF s = <<>> THEN <<>>
  ELSE IF Head(s).level = 1 THEN <<Head(s)>> \o SelectLevel1(Tail(s))
       ELSE SelectLevel1(Tail(s))

\* next_page with the cap itself as the end of the document
NextPage_NoPlusOne(entries, i, lp) ==
  IF i + 1 <= Len(entries) THEN entries[i + 1].page ELSE lp

\* next_page taken one page too far
NextPage_Same(entries, i, lp) ==
  IF i + 1 <= Len(entries) THEN entries[i + 1].page + 1 ELSE lp + 1

\* next_page of the loop body of _compute_ranges
NextPage(entries, i, lp) ==
  IF i + 1 <= Len(entries) THEN entries[i + 1].page ELSE lp + 1

\* end_page without the "- 1"
EndPage_NoMinusOne(entries, i, lp) == Max(entries[i].page, NextPage(entries, i, lp))

\* end_page without the max() floor
EndPage_NoFloor(entries, i, lp) == NextPage(entries, i, lp) - 1

\* end_page of the loop body of _compute_ranges
EndPage(entries, i, lp) == Max(entries[i].page, NextPage(entries, i, lp) - 1)

RECURSIVE ComputeRangesLoop(_, _, _, _)
\* the for loop of _compute_ranges, from index i with the list out so far
ComputeRangesLoop(entries, lp, i, out) ==
  IF i > Len(entries) THEN out
  ELSE ComputeRangesLoop(entries, lp, i + 1,
         Append(out, [entry |-> entries[i], end |-> EndPage(entries, i, lp)]))

compute_ranges(entries, lp) == ComputeRangesLoop(entries, lp, 1, <<>>)

\* the dict keeping the first pair of a title instead of the last
TitleDict_FirstWins(rs) ==
  LET keys == {rs[i].entry.title : i \in 1 .. Len(rs)}
      first(t) == CHOOSE i \in 1 .. Len(rs) :
                    /\ rs[i].entry.title = t
                    /\ \A j \in 1 .. Len(rs) : rs[j].entry.title = t => j >= i
  IN [t \in keys |-> <<rs[first(t)].entry.page, rs[first(t)].end>>]

\* {e.title: (e.page, end) for e, end in ranges}: a later pair replaces an
\* earlier one with the same title
TitleDict(rs) ==
  LET keys == {rs[i].entry.title : i \in 1 .. Len(rs)}
      last(t) == CHOOSE i \in 1 .. Len(rs) :
                   /\ rs[i].entry.title = t
                   /\ \A j \in 1 .. Len(rs) : rs[j].entry.title = t => j <= i
  IN [t \in keys |-> <<rs[last(t)].entry.page, rs[last(t)].end>>]

compute_level1_title_ranges(t, lp) == TitleDict(compute_ranges(SelectLevel1(t), lp))

\* the adjustment capping the end but leaving the start where it was
ExecSummaryAdjust_NoRetarget(d, se) ==
  LET toc_start == IF TableOfContents \in DOMAIN d THEN d[TableOfContents][1] ELSE 0
  IN <<se[1], IF toc_start # 0 /\ toc_start - 1 >= 1
              THEN Min(se[2], toc_start - 1) ELSE se[2]>>

\* the Executive Summary adjustment of _get_range_for_title, on (start, end)
ExecSummaryAdjust(d, se) ==
  LET toc_start == IF TableOfContents \in DOMAIN d THEN d[TableOfContents][1] ELSE 0
      start == IF toc_start # 0 /\ se[1] >= toc_start /\ toc_start - 1 >= 1
               THEN toc_start - 1 ELSE se[1]
      end == IF toc_start # 0 /\ toc_start - 1 >= 1
             THEN Min(se[2], toc_start - 1) ELSE se[2]
  IN <<start, end>>

\* the clamp without the lower bound 1 on the start
ClampRange_NoFloor(se, lp) ==
  LET start == Min(se[1], lp)
  IN <<start, Max(start, Min(se[2], lp))>>

\* the clamp without the upper bound last_page on the start
ClampRange_NoCap(se, lp) ==
  LET start == Max(1, se[1])
  IN <<start, Max(start, Min(se[2], lp))>>

\* the final clamp of _get_range_for_title
ClampRange(se, lp) ==
  LET start == Max(1, Min(se[1], lp))
  IN <<start, Max(start, Min(se[2], lp))>>

\* a lookup answering a missing title with a default range
get_range_for_title_Default(d, t, lp) ==
  IF t \notin DOMAIN d THEN <<1, 1>>
  ELSE ClampRange(IF t = ExecSummary THEN ExecSummaryAdjust(d, d[t]) ELSE d[t], lp)

\* _get_range_for_title(ranges_all_level1=d, title=t, last_page=lp)
get_range_for_title(d, t, lp) ==
  IF t \notin DOMAIN d THEN None
  ELSE ClampRange(IF t = ExecSummary THEN ExecSummaryAdjust(d, d[t]) ELSE d[t], lp)

\* ------------------------------------------------- the full-text extraction
\* title.lower() on the titles of the vocabulary
Lower(t) ==
  CASE t = ExecSummary -> "executive summary"
    [] t = TableOfContents -> "table of contents"
    [] t = "Introduction" -> "introduction"
    [] OTHER -> t

ContentsAndLists == {"table of contents", "list of tables", "list of figures"}

RECURSIVE ExtractLoop(_, _, _, _, _, _)
\* the for loop of extract_level1_to_files over level1, from index i, with
\* the manifest entries and the loaded pages so far
ExtractLoop(level1, d, lp, i, man, ld) ==
  IF i > Len(level1) THEN [entries |-> man, loaded |-> ld]
  ELSE LET t == level1[i].title
           start == d[t][1]
           end == Min(d[t][2], lp)
       IN IF Lower(t) \in ContentsAndLists \/ start > lp
          THEN ExtractLoop(level1, d, lp, i + 1, man, ld)
          ELSE ExtractLoop(level1, d, lp, i + 1,
                 Append(man, [title |-> t, startPage |-> start, endPage |-> end]),
                 ld \cup (start .. end))

\* ------------------------------------------------------------------ the run
Init ==
  /\ toc \in Outlines
  /\ last_page \in 1 .. MaxPageCount
  /\ pc = "loaded"
  /\ ranges = <<>>
  /\ ranges_all_level1 = <<>>
  /\ title = ""
  /\ rng = None
  /\ manifest = <<>>
  /\ loaded = {}
  /\ doc_toc = <<>>
  /\ outline_toc = <<>>
  /\ k = 0
  /\ StructIdle /\ TextIdle /\ PageIdle

\* ranges_all_level1 = _compute_level1_title_ranges(toc, last_page)
ComputeLevel1TitleRanges ==
  /\ pc = "loaded"
  /\ ranges' = compute_ranges(SelectLevel1(toc), last_page)
  /\ ranges_all_level1' = compute_level1_title_ranges(toc, last_page)
  /\ pc' = "ranged"
  /\ UNCHANGED <<toc, last_page, title, rng, manifest, loaded>>
  /\ UNCHANGED <<outlineVars, runs, call, scan>>

\* rng = _get_range_for_title(ranges_all_level1=..., title=t, last_page=...)
GetRangeForTitle ==
  /\ pc \in {"ranged", "queried"}
  /\ \E t \in Titles \cup {AbsentTitle} :
       /\ title' = t
       /\ rng' = get_range_for_title(ranges_all_level1, t, last_page)
  /\ pc' = "queried"
  /\ UNCHANGED <<toc, last_page, ranges, ranges_all_level1, manifest, loaded>>
  /\ UNCHANGED <<outlineVars, runs, call, scan>>

\* the loop of extract_level1_to_files and the manifest it writes
ExtractLevel1ToFiles ==
  /\ pc = "ranged"
  /\ LET r == ExtractLoop(SelectLevel1(toc), ranges_all_level1, last_page, 1, <<>>, {})
     IN /\ manifest' = r.entries
        /\ loaded' = r.loaded
  /\ pc' = "extracted"
  /\ UNCHANGED <<toc, last_page, ranges, ranges_all_level1, title, rng>>
  /\ UNCHANGED <<outlineVars, runs, call, scan>>

Next == ComputeLevel1TitleRanges \/ GetRangeForTitle \/ ExtractLevel1ToFiles

Spec == Init /\ [][Next]_vars

\* ------------------------------------------------- the outline loader's run
InitOutline ==
  /\ doc_toc \in BookmarkLists
  /\ outline_toc = <<>>
  /\ k = 1
  /\ pc = "outline"
  /\ toc = <<>>
  /\ last_page = 1
  /\ ranges = <<>>
  /\ ranges_all_level1 = <<>>
  /\ title = ""
  /\ rng = None
  /\ manifest = <<>>
  /\ loaded = {}
  /\ StructIdle /\ TextIdle /\ PageIdle

\* one iteration of "for level, title, page in toc"
ExtractOutlineStep ==
  /\ pc = "outline"
  /\ k <= Len(doc_toc)
  /\ outline_toc' = OutlineAppend(outline_toc, doc_toc[k])
  /\ k' = k + 1
  /\ UNCHANGED <<doc_toc, pc>>
  /\ UNCHANGED <<resolverVars, runs, call, scan>>

\* return out
ExtractOutlineReturn ==
  /\ pc = "outline"
  /\ k > Len(doc_toc)
  /\ pc' = "outlined"
  /\ UNCHANGED <<outlineVars, resolverVars, runs, call, scan>>

NextOutline == ExtractOutlineStep \/ ExtractOutlineReturn

SpecOutline == InitOutline /\ [][NextOutline]_vars

\* ------------------------------------- the structure file, written and read
\* two runs over documents with the same outline and page count
Runs == {1, 2}
StructTocEntry == [level : {1}, title : Titles, page : 1 .. MaxPageCount]
\* the outlines of up to m level-1 entries
StructOutlines(m) == UNION {[1 .. n -> StructTocEntry] : n \in 0 .. m}
\* what the four heuristic passes of main can return, as three samples
HeuristicOutputs ==
  { [toc_pages |-> <<>>, toc_like_entries |-> <<>>, big_text |-> <<>>,
     section_nums |-> <<>>],
    [toc_pages |-> <<0>>,
     toc_like_entries |-> <<[title |-> "Introduction", page |-> 1]>>,
     big_text |-> <<[page |-> 1, text |-> "Introduction", size |-> 16]>>,
     section_nums |-> <<[prefix |-> "1", count |-> 1, example |-> "1 Introduction"]>>],
    [toc_pages |-> <<0, 1>>,
     toc_like_entries |-> <<[title |-> ExecSummary, page |-> 2],
                            [title |-> "Introduction", page |-> 3]>>,
     big_text |-> <<[page |-> 2, text |-> ExecSummary, size |-> 20]>>,
     section_nums |-> <<[prefix |-> "2", count |-> 2, example |-> "2 Scope"]>>] }

\* the dict result of main; "pdf" and "metadata" are left out
main_result(l) ==
  [pageCount |-> l.page_count,
   outlineToc |-> l.outline_toc,
   tocPagesByText |-> [j \in 1 .. Len(l.toc_pages) |-> l.toc_pages[j] + 1],
   tocLikeEntriesFromTocPages |-> l.toc_like_entries,
   bigTextCandidates |-> l.big_text,
   sectionNumbering |-> l.section_nums]

\* a loader that also takes the contents-line entries, as level-1 entries
load_outline_toc_Merged(data) ==
  data.outlineToc \o
  [j \in 1 .. Len(data.tocLikeEntriesFromTocPages) |->
     [level |-> 1, title |-> data.tocLikeEntriesFromTocPages[j].title,
      page |-> data.tocLikeEntriesFromTocPages[j].page]]
\* _load_outline_toc: one TocEntry per element of data.get("outlineToc", [])
load_outline_toc(data) ==
  [j \in 1 .. Len(data.outlineToc) |->
     [level |-> data.outlineToc[j].level, title |-> data.outlineToc[j].title,
      page |-> data.outlineToc[j].page]]

\* the parts of a run's state
main_locals == [r \in Runs |-> runs[r].main_locals]
structure == [r \in Runs |-> runs[r].structure]
run_toc == [r \in Runs |-> runs[r].toc]
run_ranges == [r \in Runs |-> runs[r].ranges_all_level1]
run_pc == [r \in Runs |-> runs[r].pc]

InitStructure ==
  /\ \E o \in StructOutlines(MaxLen - 1), n \in 1 .. MaxPageCount :
       \E h1 \in HeuristicOutputs, h2 \in HeuristicOutputs :
         runs =
           [r \in Runs |->
              LET h == IF r = 1 THEN h1 ELSE h2
              IN [main_locals |->
                    [outline_toc |-> o, page_count |-> n,
                     toc_pages |-> h.toc_pages,
                     toc_like_entries |-> h.toc_like_entries,
                     big_text |-> h.big_text, section_nums |-> h.section_nums],
                  structure |-> <<>>, toc |-> <<>>, ranges_all_level1 |-> <<>>,
                  pc |-> "start"]]
  /\ pc = "structure"
  /\ ResolverIdle /\ OutlineIdle /\ TextIdle /\ PageIdle

\* main of extract_report_structure.py builds result and writes it as JSON
WriteStructure(r) ==
  /\ run_pc[r] = "start"
  /\ runs' = [runs EXCEPT ![r].structure = main_result(main_locals[r]),
                          ![r].pc = "written"]
  /\ UNCHANGED <<pc, resolverVars, outlineVars, call, scan>>

\* toc = _load_outline_toc(Path(args.structure))
LoadOutlineToc(r) ==
  /\ run_pc[r] = "written"
  /\ runs' = [runs EXCEPT ![r].toc = load_outline_toc(structure[r]),
                          ![r].pc = "loaded"]
  /\ UNCHANGED <<pc, resolverVars, outlineVars, call, scan>>

\* last_page = doc.page_count; ranges_all_level1 = _compute_level1_title_ranges(...)
ComputeRunRanges(r) ==
  /\ run_pc[r] = "loaded"
  /\ runs' = [runs EXCEPT
                ![r].ranges_all_level1 =
                  compute_level1_title_ranges(run_toc[r], main_locals[r].page_count),
                ![r].pc = "ranged"]
  /\ UNCHANGED <<pc, resolverVars, outlineVars, call, scan>>

NextStructure ==
  \E r \in Runs : WriteStructure(r) \/ LoadOutlineToc(r) \/ ComputeRunRanges(r)

SpecStructure == InitStructure /\ [][NextStructure]_vars

\* ------------------------------------------------ calls of a text function
\* the argument of the function, its return value, and the same for a second
\* call that a claim compares with the first
input == call.input
output == call.output
input2 == call.input2
output2 == call.output2

\* ---------------------------------------------------------------- _slugify
\* a string is the sequence of its characters
MaxTitleLen == 4
Lowercase ==
  {"a", "b", "c", "d", "e", "f", "g", "h", "i", "j", "k", "l", "m",
   "n", "o", "p", "q", "r", "s", "t", "u", "v", "w", "x", "y", "z"}
Digits == {"0", "1", "2", "3", "4", "5", "6", "7", "8", "9"}
\* the class [a-z0-9]
Alnum == Lowercase \cup Digits
\* the characters titles are drawn from
SlugChars == {"a", "B", "7", "&", " ", "!"}
AppendixUpper == <<"A", "p", "p", "e", "n", "d", "i", "x", " ", "A", "!">>
AppendixLower == <<"a", "p", "p", "e", "n", "d", "i", "x", " ", "a">>
\* the titles of up to m characters, and the two of the spec's example
SlugTitles(m) ==
  UNION {[1 .. n -> SlugChars] : n \in 0 .. m}
    \cup {AppendixUpper, AppendixLower}

UpperLetters ==
  <<"A", "B", "C", "D", "E", "F", "G", "H", "I", "J", "K", "L", "M",
   "N", "O", "P", "Q", "R", "S", "T", "U", "V", "W", "X", "Y", "Z">>
LowerLetters ==
  <<"a", "b", "c", "d", "e", "f", "g", "h", "i", "j", "k", "l", "m",
   "n", "o", "p", "q", "r", "s", "t", "u", "v", "w", "x", "y", "z">>
\* str.lower() on one character
lower_char(c) ==
  IF \E j \in 1 .. 26 : UpperLetters[j] = c
  THEN LowerLetters[CHOOSE j \in 1 .. 26 : UpperLetters[j] = c]
  ELSE c
str_lower_Identity(s) == s
\* str.lower()
str_lower(s) == [j \in 1 .. Len(s) |-> lower_char(s[j])]

RECURSIVE lstrip(_, _)
lstrip(s, cs) == IF s # <<>> /\ Head(s) \in cs THEN lstrip(Tail(s), cs) ELSE s
RECURSIVE rstrip(_, _)
rstrip(s, cs) ==
  IF s # <<>> /\ s[Len(s)] \in cs THEN rstrip(SubSeq(s, 1, Len(s) - 1), cs) ELSE s
\* str.strip(cs); str.strip() is strip(s, Whitespace)
strip(s, cs) == rstrip(lstrip(s, cs), cs)

sub_amp_Drop(s) == s
\* re.sub(r"&", " and ", t)
RECURSIVE sub_amp(_)
sub_amp(s) ==
  IF s = <<>> THEN <<>>
  ELSE IF Head(s) = "&" THEN <<" ", "a", "n", "d", " ">> \o sub_amp(Tail(s))
  ELSE <<Head(s)>> \o sub_amp(Tail(s))

\* drop the longest prefix of s made of characters of cs / not of cs
RECURSIVE skip_in(_, _)
skip_in(s, cs) == IF s # <<>> /\ Head(s) \in cs THEN skip_in(Tail(s), cs) ELSE s
RECURSIVE skip_not_in(_, _)
skip_not_in(s, cs) ==
  IF s # <<>> /\ Head(s) \notin cs THEN skip_not_in(Tail(s), cs) ELSE s

\* re.sub(r"[^a-z0-9]+", "-", t)
RECURSIVE sub_non_alnum(_)
sub_non_alnum(s) ==
  IF s = <<>> THEN <<>>
  ELSE IF Head(s) \notin Alnum THEN <<"-">> \o sub_non_alnum(skip_not_in(s, Alnum))
  ELSE <<Head(s)>> \o sub_non_alnum(Tail(s))

\* re.sub(r"-+", "-", t)
RECURSIVE sub_hyphens(_)
sub_hyphens(s) ==
  IF s = <<>> THEN <<>>
  ELSE IF Head(s) = "-" THEN <<"-">> \o sub_hyphens(skip_in(s, {"-"}))
  ELSE <<Head(s)>> \o sub_hyphens(Tail(s))

Section == <<"s", "e", "c", "t", "i", "o", "n">>
slugify(t0) ==
  LET t1 == strip(str_lower(t0), Whitespace)
      t2 == sub_amp(t1)
      t3 == sub_non_alnum(t2)
      t4 == strip(sub_hyphens(t3), {"-"})
  IN IF t4 = <<>> THEN Section ELSE t4

\* titles that differ from t0 in letter case only
swap_case(c) ==
  CASE c = "a" -> "A" [] c = "A" -> "a" [] c = "b" -> "B" [] c = "B" -> "b"
    [] OTHER -> c
RECURSIVE CaseVariants(_)
CaseVariants(t0) ==
  IF t0 = <<>> THEN {<<>>}
  ELSE {<<c>> \o r : c \in {Head(t0), swap_case(Head(t0))},
                     r \in CaseVariants(Tail(t0))}
\* leading or trailing characters outside [A-Za-z0-9], none of them "&"
EdgePunctuation == {<<>>, <<"!">>, <<" ">>, <<"-">>}
TitleVariants(t0) ==
  {pre \o c \o post : pre \in EdgePunctuation, post \in EdgePunctuation,
                      c \in CaseVariants(t0)}

InitSlug ==
  /\ call \in {[input |-> t0, output |-> <<>>, input2 |-> <<>>, output2 |-> <<>>] :
                 t0 \in SlugTitles(MaxTitleLen)}
  /\ pc = "slug"
  /\ ResolverIdle /\ OutlineIdle /\ StructIdle /\ PageIdle

\* output = _slugify(input)
Slugify ==
  /\ pc = "slug"
  /\ call' = [call EXCEPT !.output = slugify(input)]
  /\ pc' = "slugged"
  /\ UNCHANGED <<resolverVars, outlineVars, runs, scan>>

\* _slugify applied to a title that differs in case or edge punctuation
SlugifyVariant ==
  /\ pc = "slugged"
  /\ \E v \in TitleVariants(input) :
       call' = [call EXCEPT !.input2 = v, !.output2 = slugify(v)]
  /\ pc' = "compared"
  /\ UNCHANGED <<resolverVars, outlineVars, runs, scan>>

NextSlug == Slugify \/ SlugifyVariant

SpecSlug == InitSlug /\ [][NextSlug]_vars

\* -------------------------------------------------------------- _clean_line
MaxLineLen == 5
LineChars == {"a", " ", "\t", NBSP}
\* the lines of up to m characters
RawLines(m) == UNION {[1 .. n -> LineChars] : n \in 0 .. m}

InitClean ==
  /\ call \in {[input |-> l, output |-> <<>>, input2 |-> <<>>, output2 |-> <<>>] :
                 l \in RawLines(MaxLineLen)}
  /\ pc = "clean"
  /\ ResolverIdle /\ OutlineIdle /\ StructIdle /\ PageIdle

\* output = _clean_line(input)
CleanLine ==
  /\ pc = "clean"
  /\ call' = [call EXCEPT !.output = clean_line(input)]
  /\ pc' = "cleaned"
  /\ UNCHANGED <<resolverVars, outlineVars, runs, scan>>

\* _clean_line applied to its own result
CleanAgain ==
  /\ pc = "cleaned"
  /\ call' = [call EXCEPT !.input2 = output, !.output2 = clean_line(output)]
  /\ pc' = "recleaned"
  /\ UNCHANGED <<resolverVars, outlineVars, runs, scan>>

NextClean == CleanLine \/ CleanAgain

SpecClean == InitClean /\ [][NextClean]_vars

\* ------------------------------------------------------ the page loops
\* the arguments and locals of the loop under study
page_count == scan.page_count
page_max == scan.page_max
page_index == scan.page_index
page_texts == scan.page_texts
found == scan.found
page_spans == scan.page_spans
candidates == scan.candidates
counter == scan.counter
examples == scan.examples
top == scan.top

\* ------------------------------------------------- _find_toc_pages_by_text
MaxDocPages == 3
\* get_text("text") of a page, as four samples
PageTextSamples ==
  { <<"C", "o", "n", "t", "e", "n", "t", "s">>,
    <<"T", "A", "B", "L", "E", " ", "O", "F", " ", "C", "O", "N", "T", "E", "N", "T", "S">>,
    <<"C", "o", "n", "t", "e", "n", "t", " ", "s">>,
    <<>> }
\* the documents of up to m pages
Documents(m) == UNION {[1 .. n -> PageTextSamples] : n \in 0 .. m}
\* targets = ["table of contents", "contents"]
targets ==
  <<<<"t", "a", "b", "l", "e", " ", "o", "f", " ", "c", "o", "n", "t", "e", "n", "t", "s">>,
    <<"c", "o", "n", "t", "e", "n", "t", "s">>>>
\* t in txt
Contains(txt, t) ==
  \E j \in 0 .. (Len(txt) - Len(t)) : SubSeq(txt, j + 1, j + Len(t)) = t
\* any(t in txt for t in targets)
any_target(txt) == \E j \in 1 .. Len(targets) : Contains(txt, targets[j])

\* a page test that does not lower-case the text
find_toc_page_CaseSensitive(f, txt, i0) ==
  IF any_target(txt) THEN Append(f, i0) ELSE f
\* txt = ...get_text("text").lower(); if any(...): found.append(i)
find_toc_page(f, txt, i0) ==
  IF any_target(str_lower(txt)) THEN Append(f, i0) ELSE f

InitTocPages ==
  /\ scan \in {[page_texts |-> d, page_count |-> Len(d), page_max |-> n,
                page_index |-> 0, found |-> <<>>] :
                 d \in Documents(MaxDocPages), n \in -1 .. (MaxDocPages + 1)}
  /\ pc = "find_toc_pages"
  /\ ResolverIdle /\ OutlineIdle /\ StructIdle /\ TextIdle

\* one iteration of "for i in range(min(search_max_pages, doc.page_count))"
FindTocPagesStep ==
  /\ pc = "find_toc_pages"
  /\ page_index < Min(page_max, page_count)
  /\ scan' = [scan EXCEPT
                !.found = find_toc_page(found, page_texts[page_index + 1], page_index),
                !.page_index = page_index + 1]
  /\ UNCHANGED <<pc, resolverVars, outlineVars, runs, call>>

\* return found
FindTocPagesReturn ==
  /\ pc = "find_toc_pages"
  /\ page_index >= Min(page_max, page_count)
  /\ pc' = "found_toc_pages"
  /\ UNCHANGED <<scan, resolverVars, outlineVars, runs, call>>

NextTocPages == FindTocPagesStep \/ FindTocPagesReturn

SpecTocPages == InitTocPages /\ [][NextTocPages]_vars

\* --------------------------------------------------- _parse_toc_like_lines
MaxTocLineLen == 6
\* MIDDOT stands for U+00B7
MIDDOT == "middot"
TocLineChars == {"a", "1", ".", " "}
\* the lines of up to m characters
TocLines(m) == UNION {[1 .. n -> TocLineChars] : n \in 0 .. m}
IntroductionLine == <<"I", "n", "t", "r", "o", "d", "u", "c", "t", "i", "o", "n", " ", "1", "2">>
DottedLine == <<"a", "b", " ", MIDDOT, " ", MIDDOT, " ", "7">>
\* text.splitlines(): one line of TocLines(m), alone or next to a sample line
TocTexts(m) ==
  {<<l>> : l \in TocLines(m)}
    \cup {<<IntroductionLine, l>> : l \in TocLines(m)}
    \cup {<<l, DottedLine>> : l \in TocLines(m)}

\* the rest of a line after the title: \s+(?P<page>\d{1,4})\s*$
page_suffix(rest) ==
  LET r1 == skip_in(rest, Whitespace)
      r2 == skip_in(r1, Digits)
  IN /\ Len(r1) < Len(rest)
     /\ Len(r1) - Len(r2) \in 1 .. 4
     /\ skip_in(r2, Whitespace) = <<>>
\* TOC_LINE_RE.match(line): the lazy title is the shortest non-empty prefix
\* that the page suffix can follow; None when there is none
toc_line_match(l) ==
  LET cuts == {j \in 1 .. Len(l) : page_suffix(SubSeq(l, j + 1, Len(l)))}
  IN IF cuts = {} THEN None
     ELSE LET j == CHOOSE c \in cuts : \A d \in cuts : c <= d
              r1 == skip_in(SubSeq(l, j + 1, Len(l)), Whitespace)
              r2 == skip_in(r1, Digits)
          IN [title |-> SubSeq(l, 1, j),
              page |-> SubSeq(r1, 1, Len(r1) - Len(r2))]
digit_value(c) ==
  CASE c = "0" -> 0 [] c = "1" -> 1 [] c = "2" -> 2 [] c = "3" -> 3
    [] c = "4" -> 4 [] c = "5" -> 5 [] c = "6" -> 6 [] c = "7" -> 7
    [] c = "8" -> 8 [] c = "9" -> 9
\* int(m.group("page"))
RECURSIVE to_int(_)
to_int(ds) ==
  IF ds = <<>> THEN 0 ELSE 10 * to_int(SubSeq(ds, 1, Len(ds) - 1)) + digit_value(ds[Len(ds)])
\* str.isdigit()
isdigit(s) == s # <<>> /\ \A j \in 1 .. Len(s) : s[j] \in Digits

\* the body of "for line in lines", for the raw line raw
toc_like_entry(es, raw) ==
  LET l == clean_line(raw)
      m == toc_line_match(l)
  IN IF Len(l) < 6 THEN es
     ELSE IF m = None THEN es
     ELSE LET t1 == clean_line(rstrip(m.title, {".", MIDDOT}))
          IN IF t1 = <<>> \/ isdigit(t1) THEN es
             ELSE Append(es, [title |-> t1, page |-> to_int(m.page)])
RECURSIVE parse_loop(_, _)
parse_loop(ls, es) ==
  IF ls = <<>> THEN es ELSE parse_loop(Tail(ls), toc_like_entry(es, Head(ls)))
\* _parse_toc_like_lines(text), text given by its lines
parse_toc_like_lines(ls) == parse_loop(ls, <<>>)

InitTocLines ==
  /\ call \in {[input |-> ls, output |-> <<>>, input2 |-> <<>>, output2 |-> <<>>] :
                 ls \in TocTexts(MaxTocLineLen)}
  /\ pc = "parse"
  /\ ResolverIdle /\ OutlineIdle /\ StructIdle /\ PageIdle

\* output = _parse_toc_like_lines(input)
ParseTocLikeLines ==
  /\ pc = "parse"
  /\ call' = [call EXCEPT !.output = parse_toc_like_lines(input)]
  /\ pc' = "parsed"
  /\ UNCHANGED <<resolverVars, outlineVars, runs, scan>>

NextTocLines == ParseTocLikeLines

SpecTocLines == InitTocLines /\ [][NextTocLines]_vars

\* -------------------------------------------- _extract_big_text_candidates
MaxSpans == 5
\* raw spans: span.get("text", "") and span.get("size", 0.0)
BodySpan == [text |-> <<"B", "o", "d", "y">>, size |-> 10]
HeadSpan == [text |-> <<"H", "e", "a", "d", " ">>, size |-> 13]
NoteSpan == [text |-> <<"N", "o", "t", "e">>, size |-> 16]
ShortSpan == [text |-> <<"a", "b", " ", " ">>, size |-> 16]
BlankSpan == [text |-> <<" ">>, size |-> 16]
RawSpans == {BodySpan, HeadSpan, NoteSpan, ShortSpan, BlankSpan}
\* the pages of up to m spans
PageSpanLists(m) == UNION {[1 .. n -> RawSpans] : n \in 0 .. m}

\* the list spans: normalized text and size of every span whose text is not empty
RECURSIVE collect_spans(_)
collect_spans(sp) ==
  IF sp = <<>> THEN <<>>
  ELSE LET t1 == clean_line(Head(sp).text)
       IN IF t1 = <<>> THEN collect_spans(Tail(sp))
          ELSE <<[text |-> t1, size |-> Head(sp).size]>> \o collect_spans(Tail(sp))

\* sorted(sizes)
RECURSIVE insert_sorted(_, _)
insert_sorted(x, srt) ==
  IF srt = <<>> THEN <<x>>
  ELSE IF x <= Head(srt) THEN <<x>> \o srt
  ELSE <<Head(srt)>> \o insert_sorted(x, Tail(srt))
RECURSIVE sorted(_)
sorted(xs) == IF xs = <<>> THEN <<>> ELSE insert_sorted(Head(xs), sorted(Tail(xs)))

\* median = sizes_sorted[len(sizes_sorted) // 2]; threshold = median + 3.0
threshold_of(sizes) == sorted(sizes)[(Len(sizes) \div 2) + 1] + 3

\* a detector that never records a text as seen
mark_seen_Forget(sn, t) == sn
\* seen.add(text)
mark_seen(sn, t) == sn \cup {t}

\* "for span in spans" with its three continue tests
RECURSIVE candidates_loop(_, _, _, _, _)
candidates_loop(sp, th, sn, pg, acc) ==
  IF sp = <<>> THEN acc
  ELSE LET c == Head(sp)
       IN IF c.size < th \/ Len(c.text) < 4 \/ c.text \in sn
          THEN candidates_loop(Tail(sp), th, sn, pg, acc)
          ELSE candidates_loop(Tail(sp), th, mark_seen(sn, c.text), pg,
                               Append(acc, [page |-> pg + 1, text |-> c.text,
                                            size |-> c.size]))

\* the body of "for page_index in range(...)": candidates after page pg
page_candidates(acc, raw, pg) ==
  LET sp == collect_spans(raw)
      sizes == [j \in 1 .. Len(sp) |-> sp[j].size]
  IN IF sizes = <<>> THEN acc
     ELSE candidates_loop(sp, threshold_of(sizes), {}, pg, acc)

InitHeadings ==
  /\ scan \in {[page_count |-> n, page_max |-> x, page_index |-> 0,
                page_spans |-> <<>>, candidates |-> <<>>] :
                 n \in {1, 2}, x \in {1, 2}}
  /\ pc = "headings"
  /\ ResolverIdle /\ OutlineIdle /\ StructIdle /\ TextIdle

\* "for page_index in range(min(page_max, doc.page_count))": the next page is
\* loaded and its spans collected; the page that load_page returns is any
\* list of spans
CollectSpans ==
  /\ pc = "headings"
  /\ page_index < Min(page_max, page_count)
  /\ \E raw \in PageSpanLists(MaxSpans) : scan' = [scan EXCEPT !.page_spans = raw]
  /\ pc' = "scan"
  /\ UNCHANGED <<resolverVars, outlineVars, runs, call>>

\* the rest of the loop body: threshold, and "for span in spans"
ScanSpans ==
  /\ pc = "scan"
  /\ scan' = [scan EXCEPT
                !.candidates = page_candidates(candidates, page_spans, page_index)]
  /\ pc' = "scanned"
  /\ UNCHANGED <<resolverVars, outlineVars, runs, call>>

\* back to the loop head: the next index, and the page's lists are gone
NextHeadingsPage ==
  /\ pc = "scanned"
  /\ scan' = [scan EXCEPT !.page_index = page_index + 1, !.page_spans = <<>>]
  /\ pc' = "headings"
  /\ UNCHANGED <<resolverVars, outlineVars, runs, call>>

\* return candidates
HeadingsReturn ==
  /\ pc = "headings"
  /\ page_index >= Min(page_max, page_count)
  /\ pc' = "headings_done"
  /\ UNCHANGED <<scan, resolverVars, outlineVars, runs, call>>

NextHeadings ==
  CollectSpans \/ ScanSpans \/ NextHeadingsPage \/ HeadingsReturn

SpecHeadings == InitHeadings /\ [][NextHeadings]_vars

\* -------------------------------------------- _summarize_section_numbering
MaxReadLines == 4
\* the summary keeps the TopPrefixCount most common prefixes and the first
\* ExampleChars characters of an example; the code keeps 50 and 140, more than
\* a document within the bounds can fill
TopPrefixCount == 2
ExampleChars == 3
\* raw lines of a page's text
NumberingLines ==
  { <<"1", " ", "a">>,
    <<" ", "1", " ", " ", "b", "c">>,
    <<"1", ".", "2", " ", "a">>,
    <<"2", " ", "a">>,
    <<"1", ".", "a", " ", "b">> }
\* the texts of up to m lines
FlatLines(m) == UNION {[1 .. n -> NumberingLines] : n \in 0 .. m}
\* a document of two pages and up to m lines: each page's txt.splitlines()
NumberingDocs(m) ==
  UNION {{<<SubSeq(fl, 1, c), SubSeq(fl, c + 1, Len(fl))>> : c \in 0 .. Len(fl)} :
           fl \in FlatLines(m)}

\* \d+(?:\.\d+)*
RECURSIVE dotted_integer(_)
dotted_integer(s) ==
  LET r1 == skip_in(s, Digits)
  IN /\ Len(r1) < Len(s)
     /\ \/ r1 = <<>>
        \/ Head(r1) = "." /\ dotted_integer(Tail(r1))
\* SECTION_PREFIX_RE.match(line): the group num, the longest dotted integer at
\* the start that \s+\S+ can follow; None when there is none
section_prefix(l) ==
  LET cuts == {n \in 1 .. Len(l) :
                 /\ dotted_integer(SubSeq(l, 1, n))
                 /\ LET rest == SubSeq(l, n + 1, Len(l))
                    IN /\ rest # <<>> /\ Head(rest) \in Whitespace
                       /\ skip_in(rest, Whitespace) # <<>>}
  IN IF cuts = {} THEN None
     ELSE SubSeq(l, 1, CHOOSE n \in cuts : \A j \in cuts : j <= n)

\* counter[num] += 1, the Counter kept as (prefix, count) in insertion order
counter_add(cn, num) ==
  IF \E j \in 1 .. Len(cn) : cn[j].prefix = num
  THEN [j \in 1 .. Len(cn) |->
          IF cn[j].prefix = num THEN [cn[j] EXCEPT !.count = @ + 1] ELSE cn[j]]
  ELSE Append(cn, [prefix |-> num, count |-> 1])
\* an examples dict that keeps the last line of a prefix
set_default_Overwrite(ex, num, val) ==
  [q \in DOMAIN ex \cup {num} |-> IF q = num THEN val ELSE ex[q]]
\* examples.setdefault(num, val)
set_default(ex, num, val) ==
  [q \in DOMAIN ex \cup {num} |-> IF q \in DOMAIN ex THEN ex[q] ELSE val]
\* line[:140], scaled
truncate(l) == SubSeq(l, 1, Min(Len(l), ExampleChars))

\* "for raw_line in txt.splitlines()": the counter and examples after the lines ls
RECURSIVE count_lines(_, _, _)
count_lines(ls, cn, ex) ==
  IF ls = <<>> THEN [counter |-> cn, examples |-> ex]
  ELSE LET l == clean_line(Head(ls))
           num == section_prefix(l)
       IN IF l = <<>> \/ num = None THEN count_lines(Tail(ls), cn, ex)
          ELSE count_lines(Tail(ls), counter_add(cn, num),
                           set_default(ex, num, truncate(l)))

\* Counter.most_common: by count, highest first, equal counts in insertion order
RECURSIVE insert_by_count(_, _)
insert_by_count(x, srt) ==
  IF srt = <<>> THEN <<x>>
  ELSE IF x.count >= Head(srt).count THEN <<x>> \o srt
  ELSE <<Head(srt)>> \o insert_by_count(x, Tail(srt))
RECURSIVE by_count(_)
by_count(cn) ==
  IF cn = <<>> THEN <<>> ELSE insert_by_count(Head(cn), by_count(Tail(cn)))
most_common(cn, n) == SubSeq(by_count(cn), 1, Min(n, Len(cn)))
\* the list under "topPrefixes"
top_prefixes(cn, ex) ==
  LET tp == most_common(cn, TopPrefixCount)
  IN [j \in 1 .. Len(tp) |->
        [prefix |-> tp[j].prefix, count |-> tp[j].count,
         example |-> IF tp[j].prefix \in DOMAIN ex THEN ex[tp[j].prefix] ELSE <<>>]]

InitNumbering ==
  /\ scan \in {[page_texts |-> d, page_count |-> 2, page_max |-> x,
                page_index |-> 0, counter |-> <<>>, examples |-> <<>>,
                top |-> <<>>] :
                 d \in NumberingDocs(MaxReadLines), x \in {1, 3}}
  /\ pc = "numbering"
  /\ ResolverIdle /\ OutlineIdle /\ StructIdle /\ TextIdle

\* one iteration of "for page_index in range(min(page_max, doc.page_count))"
NumberingPage ==
  /\ pc = "numbering"
  /\ page_index < Min(page_max, page_count)
  /\ LET r == count_lines(page_texts[page_index + 1], counter, examples)
     IN scan' = [scan EXCEPT !.counter = r.counter, !.examples = r.examples,
                             !.page_index = page_index + 1]
  /\ UNCHANGED <<pc, resolverVars, outlineVars, runs, call>>

\* top = counter.most_common(50); return {"topPrefixes": [...]}
NumberingReturn ==
  /\ pc = "numbering"
  /\ page_index >= Min(page_max, page_count)
  /\ scan' = [scan EXCEPT !.top = top_prefixes(counter, examples)]
  /\ pc' = "numbered"
  /\ UNCHANGED <<resolverVars, outlineVars, runs, call>>

NextNumbering == NumberingPage \/ NumberingReturn

SpecNumbering == InitNumbering /\ [][NextNumbering]_vars

\* --------------------------------------------------- the --max-pages option
\* doc.page_count and max_pages of the run under study
doc_page_count == call.page_count
max_pages == call.max_pages

\* last_page left at doc.page_count whatever max_pages is
cap_last_page_NoCap(n, m) == n

\* last_page = doc.page_count
\* if max_pages and max_pages > 0: last_page = min(last_page, max_pages)
cap_last_page(n, m) == IF m # 0 /\ m > 0 THEN Min(n, m) ELSE n

\* the structure file is loaded and the document opened; the option is
\* absent (0), negative, below, at and above the page count
InitCap ==
  /\ toc \in {o \in Outlines : Len(o) < MaxLen}
  /\ call \in [page_count : 1 .. MaxPageCount, max_pages : -1 .. (MaxPageCount + 1)]
  /\ last_page = call.page_count
  /\ pc = "opened"
  /\ ranges = <<>>
  /\ ranges_all_level1 = <<>>
  /\ title = ""
  /\ rng = None
  /\ manifest = <<>>
  /\ loaded = {}
  /\ OutlineIdle /\ StructIdle /\ PageIdle

\* the cap applied to last_page before ranges are computed
CapLastPage ==
  /\ pc = "opened"
  /\ last_page' = cap_last_page(doc_page_count, max_pages)
  /\ pc' = "loaded"
  /\ UNCHANGED <<toc, ranges, ranges_all_level1, title, rng, manifest, loaded>>
  /\ UNCHANGED <<outlineVars, runs, call, scan>>

NextCap ==
  \/ CapLastPage
  \/ ComputeLevel1TitleRanges
  \/ GetRangeForTitle
  \/ ExtractLevel1ToFiles

SpecCap == InitCap /\ [][NextCap]_vars

\* ------------------------------------------------- build_pdf_site: main
\* the parsed command line (--start, --end) and the locals of main
args == call
total_pages == scan.total_pages
start == scan.start
end == scan.end
page_num == scan.page_num
\* index.html: None until written, then the page numbers it links, in order
index_links == scan.index_links
\* pages/NNNN.html written in this run: page number -> its Prev/Next targets
page_files == scan.page_files
\* assets/page-images/NNNN.jpg: present before the run, saved by this run
image_files == scan.image_files
images_saved == scan.images_saved

\* a file name f"{n:04d}.html" stands for its page number n: the format is
\* one-to-one on page numbers
\* the links list of _write_index
write_index(s, e) == [i \in 1 .. Max(0, e - s + 1) |-> s + i - 1]

\* prev_link and next_link of _write_page_html: None, or the one-element
\* sequence holding the page number of the file linked
write_page_html(n, total) ==
  [prev |-> IF n > 1 THEN <<n - 1>> ELSE None,
   next |-> IF n < total THEN <<n + 1>> ELSE None]

\* the document is open, nothing computed or written yet; --start and --end
\* are absent defaults, negative, inside and beyond the document
InitSite ==
  /\ call \in [start : -1 .. (MaxDocPages + 1), end : -1 .. (MaxDocPages + 1)]
  /\ \E n \in 1 .. MaxDocPages :
       \E on_disk \in SUBSET (1 .. n) :
         scan = [total_pages |-> n, start |-> 0, end |-> 0, page_num |-> 0,
                 index_links |-> None, page_files |-> <<>>,
                 image_files |-> on_disk, images_saved |-> {}]
  /\ pc = "site"
  /\ ResolverIdle /\ OutlineIdle /\ StructIdle

\* start = max(1, args.start); end = args.end if > 0 else total_pages;
\* end = min(end, total_pages)
ComputeWindow ==
  /\ pc = "site"
  /\ scan' = [scan EXCEPT
                !.start = Max(1, args.start),
                !.end = Min(IF args.end > 0 THEN args.end ELSE total_pages,
                            total_pages)]
  /\ pc' = "window"
  /\ UNCHANGED <<resolverVars, outlineVars, runs, call>>

\* if start > end: raise SystemExit
AbortWindow ==
  /\ pc = "window"
  /\ start > end
  /\ pc' = "aborted"
  /\ UNCHANGED <<resolverVars, outlineVars, runs, call, scan>>

\* _write_index(out_dir, total_pages, start, end), then the loop begins
WriteIndex ==
  /\ pc = "window"
  /\ ~(start > end)
  /\ scan' = [scan EXCEPT !.index_links = write_index(start, end),
                          !.page_num = start]
  /\ pc' = "pages"
  /\ UNCHANGED <<resolverVars, outlineVars, runs, call>>

\* one iteration of "for page_num in range(start, end + 1)": the image is
\* saved when missing, the page file written
WritePage ==
  /\ pc = "pages"
  /\ page_num <= end
  /\ scan' = [scan EXCEPT
                !.image_files = image_files \cup {page_num},
                !.images_saved = IF page_num \notin image_files
                                 THEN images_saved \cup {page_num}
                                 ELSE images_saved,
                !.page_files = [n \in DOMAIN page_files \cup {page_num} |->
                                  IF n = page_num
                                  THEN write_page_html(page_num, total_pages)
                                  ELSE page_files[n]],
                !.page_num = page_num + 1]
  /\ UNCHANGED <<pc, resolverVars, outlineVars, runs, call>>

\* print("Done. ..."); return 0
SiteDone ==
  /\ pc = "pages"
  /\ page_num > end
  /\ pc' = "site_done"
  /\ UNCHANGED <<resolverVars, outlineVars, runs, call, scan>>

NextSite == ComputeWindow \/ AbortWindow \/ WriteIndex \/ WritePage \/ SiteDone

SpecSite == InitSite /\ [][NextSite]_vars

\* ------------------------------------------------------------------ claims
Level1 == SelectLevel1(toc)
\* _compute_level1_title_ranges has just returned
Ranged == pc = "ranged"
StartOf(i) == ranges[i].entry.page
EndOf(i) == ranges[i].end
Covering(p) == {i \in 1 .. Len(ranges) : StartOf(i) <= p /\ p <= EndOf(i)}
Partitioned == \A p \in 1 .. last_page : Cardinality(Covering(p)) = 1
\* the pages from the first entry's page on lie in exactly one range each,
\* the pages before it in none
PartitionedFromFirst ==
  \A p \in 1 .. last_page :
    Cardinality(Covering(p)) = IF p >= StartOf(1) THEN 1 ELSE 0
StartsNonDecreasing ==
  \A i \in 1 .. Len(ranges) - 1 : StartOf(i) <= StartOf(i + 1)
StartsBeforeEnds == \A i \in 1 .. Len(ranges) : StartOf(i) <= EndOf(i)
\* the level-1 pages increase strictly and lie in 1..last_page
WellOrdered ==
  LET l1 == Level1
  IN /\ l1 # <<>>
     /\ l1[1].page >= 1
     /\ l1[Len(l1)].page <= last_page
     /\ \A i \in 1 .. Len(l1) - 1 : l1[i].page < l1[i + 1].page

C2_Original ==
  Ranged => \A i \in 1 .. Len(ranges) - 1 : EndOf(i) = StartOf(i + 1) - 1

\* C2 amended: a range other than the last ends on the page before the next
\* range starts when the next entry's page is later than its own, and on its
\* own start page otherwise.
C2_Adjacent ==
  Ranged =>
    \A i \in 1 .. Len(ranges) - 1 :
      EndOf(i) = IF StartOf(i) < StartOf(i + 1) THEN StartOf(i + 1) - 1
                 ELSE StartOf(i)

C2_Witness ==
  /\ Ranged
  /\ \E i \in 1 .. Len(ranges) - 1 : StartOf(i) + 1 < StartOf(i + 1)
  /\ \E i \in 1 .. Len(ranges) - 1 : StartOf(i) >= StartOf(i + 1)

\* C3: _compute_ranges returns one (entry, end) pair per level-1 entry, in
\* input order, with end = max(entry page, nextStart - 1), nextStart the
\* next entry's page or last_page + 1; the start reported under a title is
\* the page of the entry that pair belongs to.
C3_RangeFormula ==
  Ranged =>
    LET l1 == Level1
    IN /\ Len(ranges) = Len(l1)
       /\ \A i \in 1 .. Len(l1) :
            LET nextStart == IF i < Len(l1) THEN l1[i + 1].page ELSE last_page + 1
                endPage == IF l1[i].page >= nextStart - 1 THEN l1[i].page
                           ELSE nextStart - 1
            IN /\ ranges[i].entry = l1[i]
               /\ ranges[i].end = endPage
               /\ (\A j \in (i + 1) .. Len(l1) : l1[j].title # l1[i].title)
                    => ranges_all_level1[l1[i].title] = <<l1[i].page, endPage>>
       /\ DOMAIN ranges_all_level1 = {l1[i].title : i \in 1 .. Len(l1)}

C3_Witness ==
  /\ Ranged
  /\ Len(toc) = MaxLen
  /\ Len(Level1) = MaxLen - 1
  /\ Level1[1].page > Level1[2].page
  /\ Level1[2].page < last_page

\* the (start, end) pair _compute_ranges gives entry i, and that pair clamped
RawRange(i) == <<StartOf(i), EndOf(i)>>
Resolved(i) == ClampRange(RawRange(i), last_page)
SharedPage(i) == i < Len(ranges) /\ StartOf(i) = StartOf(i + 1)

\* C4 as stated: when adjacent level-1 entries i and i+1 share page p, entry
\* i's range is [p,p] and entry i+1's range is [p, page before the following
\* entry], or [p, last_page] if it is last (each range read before or after
\* the final clamp; stated here only for outlines whose level-1 pages all lie
\* in 1..last_page).
C4_Original ==
  (Ranged /\ \A n \in 1 .. Len(ranges) : StartOf(n) \in 1 .. last_page) =>
    \A i \in 1 .. Len(ranges) :
      SharedPage(i) =>
        LET p == StartOf(i)
            a == <<p, p>>
            b == <<p, IF i + 2 <= Len(ranges) THEN StartOf(i + 2) - 1 ELSE last_page>>
        IN /\ (RawRange(i) = a \/ Resolved(i) = a)
           /\ (RawRange(i + 1) = b \/ Resolved(i + 1) = b)

\* C4 amended: when adjacent level-1 entries i and i+1 share page p, the
\* range _compute_ranges gives entry i is [p,p]; entry i+1's range starts at
\* p and ends on the page before the following entry when that entry starts
\* after p, on last_page when it is last and p <= last_page, and on p itself
\* otherwise.
C4_SharedPage ==
  Ranged =>
    \A i \in 1 .. Len(ranges) :
      SharedPage(i) =>
        LET p == StartOf(i)
            q == IF i + 2 <= Len(ranges) THEN StartOf(i + 2) ELSE last_page + 1
        IN /\ RawRange(i) = <<p, p>>
           /\ RawRange(i + 1) = <<p, IF q > p THEN q - 1 ELSE p>>

\* pages 1,1,3 in a 3-page document: [1,1], [1,2], [3,3]
C4_Witness ==
  /\ Ranged
  /\ Len(ranges) = 3
  /\ last_page = 3
  /\ RawRange(1) = <<1, 1>>
  /\ RawRange(2) = <<1, 2>>
  /\ RawRange(3) = <<3, 3>>

Queried == pc = "queried"
Found == Queried /\ title \in DOMAIN ranges_all_level1
\* the nominal (start, end) recorded under the queried title
Nominal == ranges_all_level1[title]
HasContents == TableOfContents \in DOMAIN ranges_all_level1
ContentsStart == ranges_all_level1[TableOfContents][1]

\* C5: every range _get_range_for_title returns has
\* 1 <= start <= end <= last_page.
C5_RangeWithinDocument ==
  Found => (1 <= rng[1] /\ rng[1] <= rng[2] /\ rng[2] <= last_page)

C5_Witness ==
  /\ Found
  /\ title = ExecSummary
  /\ Nominal[1] = 0
  /\ HasContents
  /\ ContentsStart > last_page
  /\ rng = <<1, last_page>>

\* C6 as stated: a title whose nominal page exceeds last_page resolves to
\* the single trailing page [last_page, last_page].
C6_Original ==
  (Found /\ Nominal[1] > last_page) => rng = <<last_page, last_page>>

\* C6 amended: a title whose nominal page exceeds last_page resolves to
\* [last_page, last_page], except "Executive Summary" when a "Table of
\* Contents" entry starts at t with 2 <= t <= its nominal page: it resolves
\* to the single page min(t - 1, last_page).
C6_BeyondLastPage ==
  (Found /\ Nominal[1] > last_page) =>
    LET only == IF title = ExecSummary /\ HasContents
                   /\ 2 <= ContentsStart /\ ContentsStart <= Nominal[1]
                THEN (IF ContentsStart - 1 <= last_page THEN ContentsStart - 1
                      ELSE last_page)
                ELSE last_page
    IN rng = <<only, only>>

C6_Witness ==
  /\ Found
  /\ title = "Introduction"
  /\ Nominal[1] = last_page + 1
  /\ last_page > 1
  /\ rng = <<last_page, last_page>>

\* the clamp of (start, end) to 1..last_page, written out
ClampedNominal ==
  LET s == IF Nominal[1] > last_page THEN last_page
           ELSE IF Nominal[1] < 1 THEN 1 ELSE Nominal[1]
      e == IF Nominal[2] > last_page THEN last_page ELSE Nominal[2]
  IN <<s, IF e < s THEN s ELSE e>>

\* C7: for "Executive Summary" with nominal page on or after the start t of
\* "Table of Contents" and t >= 2, the range returned is the single page
\* t - 1 clamped to 1..last_page; with t = 1 or no "Table of Contents"
\* entry it is the nominal adjacency range, clamped only.
C7_ExecSummaryRetarget ==
  (Found /\ title = ExecSummary) =>
    /\ (HasContents /\ ContentsStart >= 2 /\ Nominal[1] >= ContentsStart) =>
         LET c == IF ContentsStart - 1 > last_page THEN last_page
                  ELSE ContentsStart - 1
         IN rng = <<c, c>>
    /\ (~HasContents \/ ContentsStart = 1) => rng = ClampedNominal

C7_Witness ==
  /\ Found
  /\ title = ExecSummary
  /\ HasContents
  /\ ContentsStart = 3
  /\ Nominal = <<3, 3>>
  /\ last_page = 3
  /\ rng = <<2, 2>>

\* C8: whenever a level-1 "Table of Contents" entry of the outline starts at
\* t >= 2, the range returned for "Executive Summary" ends at or before
\* t - 1 (it contains neither page t nor a later page).
C8_Original ==
  (Found /\ title = ExecSummary) =>
    \A i \in 1 .. Len(Level1) :
      (Level1[i].title = TableOfContents /\ Level1[i].page >= 2)
        => rng[2] <= Level1[i].page - 1

\* What the lookup does guarantee: relative to the "Table of Contents" start t
\* that the range map records (the last level-1 entry of that title), t >= 2,
\* the range returned for "Executive Summary" ends at or before t - 1.
StopsBeforeRecordedContents ==
  (Found /\ title = ExecSummary /\ HasContents /\ ContentsStart >= 2) =>
    rng[2] <= ContentsStart - 1

\* "Executive Summary" nominally [1,2] with the contents page on 2: [1,1]
StopsBeforeRecordedContentsCase ==
  /\ Found
  /\ title = ExecSummary
  /\ HasContents
  /\ ContentsStart = 2
  /\ Nominal = <<1, 2>>
  /\ rng = <<1, 1>>

\* C9: an outline with no level-1 entry (the empty outline included) gives
\* an empty range map, None for every title asked, and a manifest with no
\* entries and no page loaded.
C9_EmptyOutline ==
  (pc # "loaded" /\ Level1 = <<>>) =>
    /\ DOMAIN ranges_all_level1 = {}
    /\ Queried => rng = None
    /\ pc = "extracted" => (manifest = <<>> /\ loaded = {})

C9_Witness ==
  /\ toc = <<>>
  /\ Queried
  /\ title = ExecSummary
  /\ rng = None

\* the bookmarks already handled whose normalized title is non-empty
KeptBookmarks == {i \in 1 .. (k - 1) : clean_line(doc_toc[i].title) # <<>>}
RankOf(i) == Cardinality({j \in KeptBookmarks : j <= i})

\* C10: the outline loader's list holds exactly the bookmarks whose
\* normalized title is non-empty, in input order, each with its title
\* normalized and its level and page unchanged; an empty bookmark list gives
\* an empty list.
C10_OutlineLoader ==
  pc \in {"outline", "outlined"} =>
    /\ Len(outline_toc) = Cardinality(KeptBookmarks)
    /\ \A i \in KeptBookmarks :
         outline_toc[RankOf(i)] = [level |-> doc_toc[i].level,
                           title |-> clean_line(doc_toc[i].title),
                           page |-> doc_toc[i].page]
    /\ \A j \in 1 .. Len(outline_toc) : outline_toc[j].title # <<>>
    /\ (pc = "outlined" /\ doc_toc = <<>>) => outline_toc = <<>>

C10_Witness ==
  /\ pc = "outlined"
  /\ Len(doc_toc) = MaxBookmarks
  /\ Len(outline_toc) = MaxBookmarks - 1
  /\ doc_toc[1].title = <<NBSP, "\t">>
  /\ outline_toc[1] = [level |-> 1, title |-> <<"a">>, page |-> MaxPageCount + 1]
  /\ doc_toc[2].title = <<" ", "a", NBSP>>
  /\ outline_toc[2].page = 0

\* C11: two runs with the same non-empty outline and page count but different
\* heuristic outputs load the same entry list and resolve the same ranges, and
\* that list is the outline alone: no contents-line entry is put into it.
C11_OutlineOnly ==
  /\ \A r \in Runs :
       run_pc[r] \in {"loaded", "ranged"} /\ main_locals[r].outline_toc # <<>>
         => /\ run_toc[r] = main_locals[r].outline_toc
            /\ structure[r].outlineToc = main_locals[r].outline_toc
            /\ structure[r].tocLikeEntriesFromTocPages
                 = main_locals[r].toc_like_entries
  /\ (\A r \in Runs : run_pc[r] = "ranged") /\ main_locals[1].outline_toc # <<>>
       => run_toc[1] = run_toc[2] /\ run_ranges[1] = run_ranges[2]
C11_Witness ==
  /\ \A r \in Runs : run_pc[r] = "ranged"
  /\ main_locals[1].outline_toc # <<>>
  /\ main_locals[1].toc_pages # main_locals[2].toc_pages
  /\ main_locals[1].toc_like_entries # main_locals[2].toc_like_entries
  /\ main_locals[1].toc_like_entries # <<>>
  /\ main_locals[2].toc_like_entries # <<>>
  /\ main_locals[1].big_text # main_locals[2].big_text
  /\ main_locals[1].section_nums # main_locals[2].section_nums
  /\ DOMAIN run_ranges[1] # {}

\* C12: with an empty outline and a non-empty list of contents-line entries the
\* resolved range map is non-empty.
C12_Original ==
  \A r \in Runs :
    /\ run_pc[r] = "ranged"
    /\ main_locals[r].outline_toc = <<>>
    /\ main_locals[r].toc_like_entries # <<>>
    => DOMAIN run_ranges[r] # {}

\* the words of a title: its maximal runs of [a-z0-9] once lower-cased, with
\* every "&" standing for the word "and"
RECURSIVE SlugWords(_)
SlugWords(s) ==
  IF s = <<>> THEN <<>>
  ELSE IF Head(s) = "&" THEN <<<<"a", "n", "d">>>> \o SlugWords(Tail(s))
  ELSE IF Head(s) \notin Alnum THEN SlugWords(Tail(s))
  ELSE LET rest == skip_in(s, Alnum)
       IN <<SubSeq(s, 1, Len(s) - Len(rest))>> \o SlugWords(rest)
RECURSIVE JoinWith(_, _)
JoinWith(ws, sep) ==
  IF ws = <<>> THEN <<>>
  ELSE IF Len(ws) = 1 THEN ws[1]
  ELSE ws[1] \o sep \o JoinWith(Tail(ws), sep)
ExpectedSlug(t0) == JoinWith(SlugWords(str_lower(t0)), <<"-">>)
WellFormedSlug(g) ==
  /\ g # <<>>
  /\ \A j \in 1 .. Len(g) : g[j] \in Alnum \cup {"-"}
  /\ g[1] # "-" /\ g[Len(g)] # "-"
  /\ \A j \in 1 .. Len(g) - 1 : ~(g[j] = "-" /\ g[j + 1] = "-")

C14_CaseAndEdges ==
  pc = "compared" => output2 = output
C14_Witness ==
  /\ pc = "compared"
  /\ input = AppendixLower
  /\ input2 = AppendixUpper
  /\ output = <<"a", "p", "p", "e", "n", "d", "i", "x", "-", "a">>
  /\ output2 = output

\* the maximal runs of non-whitespace characters of s
RECURSIVE WordsOf(_)
WordsOf(s) ==
  IF s = <<>> THEN <<>>
  ELSE IF Head(s) \in Whitespace THEN WordsOf(Tail(s))
  ELSE LET rest == skip_not_in(s, Whitespace)
       IN <<SubSeq(s, 1, Len(s) - Len(rest))>> \o WordsOf(rest)

\* C15: _clean_line returns the words of its input separated by one ASCII
\* space each: no whitespace at either end, no two adjacent spaces, the empty
\* string for an input without words, and its own output is a fixed point.
C15_CleanLine ==
  /\ pc \in {"cleaned", "recleaned"} =>
       /\ output = JoinWith(WordsOf(input), <<" ">>)
       /\ \A j \in 1 .. Len(output) : output[j] \in Whitespace => output[j] = " "
       /\ output # <<>> => output[1] # " " /\ output[Len(output)] # " "
       /\ \A j \in 1 .. Len(output) - 1 : ~(output[j] = " " /\ output[j + 1] = " ")
       /\ (\A j \in 1 .. Len(input) : input[j] \in Whitespace) => output = <<>>
  /\ pc = "recleaned" => output2 = output
C15_Witness ==
  /\ pc = "recleaned"
  /\ input = <<NBSP, "a", "\t", " ", "a">>
  /\ output = <<"a", " ", "a">>
  /\ output2 = output

\* the 0-based indices of the scan window whose page names a contents keyword
KeywordPages ==
  {n \in 0 .. (Min(page_max, page_count) - 1) :
     \/ Contains(str_lower(page_texts[n + 1]), targets[1])
     \/ Contains(str_lower(page_texts[n + 1]), targets[2])}

\* C16: _find_toc_pages_by_text returns exactly the indices below
\* min(search_max_pages, pageCount) whose lower-cased text contains a keyword,
\* strictly increasing; the empty list when there is none.
C16_FindTocPages ==
  pc = "found_toc_pages" =>
    /\ {found[j] : j \in 1 .. Len(found)} = KeywordPages
    /\ \A j \in 1 .. Len(found) - 1 : found[j] < found[j + 1]
    /\ KeywordPages = {} => found = <<>>
C16_Witness ==
  /\ pc = "found_toc_pages"
  /\ page_count = 3
  /\ page_max = 2
  /\ found = <<0, 1>>
  /\ page_texts[1] # page_texts[2]
  /\ Contains(str_lower(page_texts[3]), targets[2])

\* C17: no title emitted by _parse_toc_like_lines is empty, all digits, or
\* ends with leader punctuation ("." or the middle dot).
C17_Original ==
  pc = "parsed" =>
    \A j \in 1 .. Len(output) :
      /\ output[j].title # <<>>
      /\ ~isdigit(output[j].title)
      /\ output[j].title[Len(output[j].title)] \notin {".", MIDDOT}
\* the examples of the claim that the code does satisfy
ParsesExamples ==
  pc = "parsed" =>
    /\ input[1] = IntroductionLine =>
         output # <<>> /\ output[1] = [title |-> SubSeq(IntroductionLine, 1, 12),
                                       page |-> 12]
    /\ Len(input) = 1 /\ (isdigit(input[1]) \/ Len(clean_line(input[1])) < 6)
         => output = <<>>

\* the value at 0-based rank r of the sizes in ascending order
ValueAtRank(sizes, r) ==
  CHOOSE v \in {sizes[j] : j \in 1 .. Len(sizes)} :
    /\ Cardinality({j \in 1 .. Len(sizes) : sizes[j] < v}) <= r
    /\ r < Cardinality({j \in 1 .. Len(sizes) : sizes[j] <= v})
\* twice the statistical median: the middle value, or the sum of the two
\* middle values of an even number of sizes
TwiceMedian(sizes) ==
  IF Len(sizes) % 2 = 1
  THEN 2 * ValueAtRank(sizes, Len(sizes) \div 2)
  ELSE ValueAtRank(sizes, (Len(sizes) \div 2) - 1) + ValueAtRank(sizes, Len(sizes) \div 2)
SizesOf(sp) == [j \in 1 .. Len(sp) |-> sp[j].size]
\* the candidates recorded for page number pg
CandidatesOfPage(pg) == SelectSeq(candidates, LAMBDA c : c.page = pg)
\* the detector has just scanned the spans of page number page_index + 1
PageRead == pc = "scanned"

\* C18: on a page with a non-empty span the candidates are exactly the spans
\* whose size is at least the statistical median of the page's sizes plus 3
\* and whose normalized text has at least 4 characters.
C18_Original ==
  PageRead /\ collect_spans(page_spans) # <<>> =>
    LET sp == collect_spans(page_spans)
        here == CandidatesOfPage(page_index + 1)
    IN {here[j].text : j \in 1 .. Len(here)}
         = {sp[j].text : j \in {n \in 1 .. Len(sp) :
                                  /\ 2 * sp[n].size >= TwiceMedian(SizesOf(sp)) + 6
                                  /\ Len(sp[n].text) >= 4}}

\* span n of sp qualifies: size at least the detector's threshold (the value
\* at rank len // 2, plus 3) and a text of at least 4 characters
Qualifies(sp, n) ==
  /\ sp[n].size >= ValueAtRank(SizesOf(sp), Len(sp) \div 2) + 3
  /\ Len(sp[n].text) >= 4
\* the first qualifying occurrence of every qualifying text
FirstQualifying(sp) ==
  {n \in 1 .. Len(sp) :
     /\ Qualifies(sp, n)
     /\ \A j \in 1 .. n - 1 : ~(Qualifies(sp, j) /\ sp[j].text = sp[n].text)}
\* the members of a set of indices in increasing order
RECURSIVE Ascending(_)
Ascending(ns) ==
  IF ns = {} THEN <<>>
  ELSE LET least == CHOOSE n \in ns : \A j \in ns : n <= j
       IN <<least>> \o Ascending(ns \ {least})
\* what page number pg is to contribute, from its own spans alone
OwnCandidates(raw, pg) ==
  LET sp == collect_spans(raw)
      order == Ascending(FirstQualifying(sp))
  IN [j \in 1 .. Len(order) |->
        [page |-> pg, text |-> sp[order[j]].text, size |-> sp[order[j]].size]]
NoRepeatedCandidate(cs) ==
  \A i1 \in 1 .. Len(cs) : \A i2 \in 1 .. Len(cs) :
    i1 < i2 => ~(cs[i1].page = cs[i2].page /\ cs[i1].text = cs[i2].text)
PageOrdered(cs) == \A j \in 1 .. Len(cs) - 1 : cs[j].page <= cs[j + 1].page

\* C19: reading a page appends, to the candidates of the earlier pages left as
\* they were, the first qualifying occurrence of each text of that page in
\* span order, computed from that page's spans alone (nothing for a page
\* without spans); so no (page, text) pair repeats and pages are in order.
C19_PerPage ==
  [][/\ NoRepeatedCandidate(candidates')
     /\ PageOrdered(candidates')
     /\ pc' = "scanned" =>
          candidates' = candidates \o OwnCandidates(page_spans, page_index + 1)]_vars
C19_Witness ==
  /\ PageRead
  /\ page_index = 1
  /\ page_spans = <<BodySpan, HeadSpan, BodySpan, BodySpan, HeadSpan>>
  /\ Len(CandidatesOfPage(1)) = 2
  /\ CandidatesOfPage(1)[1].size = 16
  /\ CandidatesOfPage(1)[2].size = 13
  /\ Len(CandidatesOfPage(2)) = 1

\* the normalized non-empty lines of the sampled pages, as (page, line) places
SampledPlaces ==
  {q \in (1 .. Min(page_max, page_count)) \X (1 .. MaxReadLines) :
     q[2] <= Len(page_texts[q[1]])}
LineAt(q) == clean_line(page_texts[q[1]][q[2]])
\* line l starts with prefix pre, then whitespace, then a non-whitespace character
StartsWithPrefix(l, pre) ==
  /\ Len(l) > Len(pre) + 1
  /\ SubSeq(l, 1, Len(pre)) = pre
  /\ l[Len(pre) + 1] \in Whitespace
  /\ \E j \in (Len(pre) + 2) .. Len(l) : l[j] \notin Whitespace
\* integers separated by single dots
DottedInteger(pre) ==
  /\ pre # <<>>
  /\ \A j \in 1 .. Len(pre) : pre[j] \in Digits \cup {"."}
  /\ pre[1] # "." /\ pre[Len(pre)] # "."
  /\ \A j \in 1 .. Len(pre) - 1 : ~(pre[j] = "." /\ pre[j + 1] = ".")
PlacesOf(pre) == {q \in SampledPlaces : StartsWithPrefix(LineAt(q), pre)}
\* the first place of a non-empty set of places, in document order
FirstPlace(qs) ==
  CHOOSE q \in qs : \A o \in qs : q[1] < o[1] \/ (q[1] = o[1] /\ q[2] <= o[2])
\* every dotted-integer prefix that some sampled line starts with
SampledPrefixes ==
  {pre \in UNION {{SubSeq(LineAt(q), 1, n) : n \in 1 .. Len(LineAt(q))} :
                     q \in SampledPlaces} :
     DottedInteger(pre) /\ PlacesOf(pre) # {}}
Reported == {top[j].prefix : j \in 1 .. Len(top)}

\* C20: the summary lists at most TopPrefixCount distinct prefixes in
\* non-increasing order of count; each count is the number of sampled
\* normalized lines starting with that dotted-integer prefix, whitespace and a
\* non-whitespace character; each example is the first such line, truncated;
\* and no omitted prefix has a higher count than a reported one.
C20_NumberingSummary ==
  pc = "numbered" =>
    /\ Len(top) = Min(TopPrefixCount, Cardinality(SampledPrefixes))
    /\ \A j \in 1 .. Len(top) - 1 : top[j].count >= top[j + 1].count
    /\ \A i1 \in 1 .. Len(top) : \A i2 \in 1 .. Len(top) :
         i1 # i2 => top[i1].prefix # top[i2].prefix
    /\ \A j \in 1 .. Len(top) :
         /\ top[j].prefix \in SampledPrefixes
         /\ top[j].count = Cardinality(PlacesOf(top[j].prefix))
         /\ LET first == LineAt(FirstPlace(PlacesOf(top[j].prefix)))
            IN top[j].example = SubSeq(first, 1, Min(Len(first), ExampleChars))
    /\ \A pre \in SampledPrefixes \ Reported :
         \A j \in 1 .. Len(top) : Cardinality(PlacesOf(pre)) <= top[j].count
C20_Witness ==
  /\ pc = "numbered"
  /\ page_max > 1
  /\ page_texts[1] # <<>> /\ page_texts[2] # <<>>
  /\ Cardinality(SampledPrefixes) > TopPrefixCount
  /\ Len(top) = TopPrefixCount
  /\ top[1].count = 2
  /\ top[2].count = 1
  /\ top[1].example = <<"1", " ", "b">>

\* the cap the option asks for, by cases
PageCap ==
  IF max_pages <= 0 \/ max_pages >= doc_page_count THEN doc_page_count
  ELSE max_pages

\* C21: with max_pages = m > 0 range resolution uses
\* last_page = min(page count, m), and the page count itself when m <= 0;
\* no page beyond that cap is in a range returned for text or image
\* extraction, in a manifest entry, or among the pages loaded.
C21_MaxPages ==
  pc \in {"loaded", "ranged", "queried", "extracted"} =>
    /\ last_page = PageCap
    /\ (Queried /\ rng # None) => (rng[1] <= PageCap /\ rng[2] <= PageCap)
    /\ pc = "extracted" =>
         /\ \A i \in 1 .. Len(manifest) :
              manifest[i].startPage <= PageCap /\ manifest[i].endPage <= PageCap
         /\ \A p \in loaded : p <= PageCap

\* a one-entry outline in a 3-page document capped at 2 pages
C21_Witness ==
  /\ pc = "extracted"
  /\ doc_page_count = MaxPageCount
  /\ max_pages = MaxPageCount - 1
  /\ Len(toc) = 1
  /\ manifest = <<[title |-> "Introduction", startPage |-> 1,
                   endPage |-> MaxPageCount - 1]>>
  /\ loaded = 1 .. (MaxPageCount - 1)

\* extract_level1_to_files has written the manifest
Extracted == pc = "extracted"
\* the level-1 entries the loop writes, by position in the level-1 list:
\* not a contents/list title, recorded start not beyond last_page
Emitted ==
  {i \in 1 .. Len(Level1) :
     /\ Lower(Level1[i].title) \notin ContentsAndLists
     /\ ranges_all_level1[Level1[i].title][1] <= last_page}
\* the position of the entry that manifest entry j was written for
EmittedIndex(j) ==
  CHOOSE i \in Emitted : Cardinality({h \in Emitted : h <= i}) = j
TitlesDistinct ==
  \A i, j \in 1 .. Len(Level1) : Level1[i].title = Level1[j].title => i = j

\* C22: every entry written by extract_level1_to_files whose next level-1
\* outline entry (a filtered contents/list entry or not) starts on a later
\* page n has endPage < n.
C22_Original ==
  Extracted =>
    \A j \in 1 .. Len(manifest) :
      LET i == EmittedIndex(j)
      IN (i < Len(Level1) /\ Level1[i + 1].page > Level1[i].page)
           => manifest[j].endPage < Level1[i + 1].page

\* What the extraction does guarantee: when no two level-1 entries share a
\* title, an entry written ends before the page its next level-1 entry
\* starts on, when that page is later than its own.
EndsBeforeNextWhenTitlesDistinct ==
  (Extracted /\ TitlesDistinct) =>
    /\ Len(manifest) = Cardinality(Emitted)
    /\ \A j \in 1 .. Len(manifest) :
         LET i == EmittedIndex(j)
         IN (i < Len(Level1) /\ Level1[i + 1].page > Level1[i].page)
              => manifest[j].endPage < Level1[i + 1].page

\* "Executive Summary" on page 1 written as [1,1] before the filtered
\* contents entry on page 2
EndsBeforeNextCase ==
  /\ Extracted
  /\ TitlesDistinct
  /\ Len(Level1) = 3
  /\ Level1[1] = [level |-> 1, title |-> ExecSummary, page |-> 1]
  /\ Level1[2] = [level |-> 1, title |-> TableOfContents, page |-> 2]
  /\ Level1[3].page = 3
  /\ last_page = 3
  /\ manifest[1] = [title |-> ExecSummary, startPage |-> 1, endPage |-> 1]
  /\ Len(manifest) = 2

\* C23: looking up the title of any level-1 entry in the range map returns
\* (the entry's page, the end page _compute_ranges gave that entry), also
\* when several level-1 entries carry the same title; and every manifest
\* entry has the nominal page of the entry it was written for as startPage.
C23_Original ==
  /\ pc \in {"ranged", "queried", "extracted"} =>
       \A i \in 1 .. Len(Level1) :
         ranges_all_level1[Level1[i].title]
           = <<Level1[i].page, EndPage(Level1, i, last_page)>>
  /\ Extracted =>
       \A j \in 1 .. Len(manifest) :
         manifest[j].startPage = Level1[EmittedIndex(j)].page

\* C24: every manifest entry has 1 <= startPage <= endPage <= last_page
\* (the manifest's extractedPageCap), and every page loaded lies in
\* 1..last_page, whatever the nominal pages of the outline.
C24_Original ==
  Extracted =>
    /\ \A j \in 1 .. Len(manifest) :
         /\ 1 <= manifest[j].startPage
         /\ manifest[j].startPage <= manifest[j].endPage
         /\ manifest[j].endPage <= last_page
    /\ \A p \in loaded : 1 <= p /\ p <= last_page

\* What the extraction does guarantee: startPage <= endPage <= last_page
\* for every manifest entry, no entry for a recorded start beyond
\* last_page, and 1 <= startPage when every level-1 page is at least 1.
ManifestWithinCap ==
  Extracted =>
    /\ \A j \in 1 .. Len(manifest) :
         /\ manifest[j].startPage <= manifest[j].endPage
         /\ manifest[j].endPage <= last_page
    /\ \A p \in loaded : p <= last_page
    /\ (\A i \in 1 .. Len(Level1) : Level1[i].page >= 1) =>
         /\ \A j \in 1 .. Len(manifest) : 1 <= manifest[j].startPage
         /\ \A p \in loaded : 1 <= p

\* an entry starting beyond last_page is skipped, the entry before it kept
ManifestWithinCapCase ==
  /\ Extracted
  /\ last_page = 2
  /\ Len(Level1) = 2
  /\ Level1[1] = [level |-> 1, title |-> ExecSummary, page |-> 1]
  /\ Level1[2] = [level |-> 1, title |-> "Introduction", page |-> 3]
  /\ manifest = <<[title |-> ExecSummary, startPage |-> 1, endPage |-> 2]>>
  /\ loaded = {1, 2}

\* the window the command line asks for: start = max(1, --start),
\* end = min(--end or total, total)
AskedStart == IF args.start >= 1 THEN args.start ELSE 1
\* (--end when one is given, a positive page number; the last page otherwise)
AskedEnd ==
  IF args.end >= 1 /\ args.end <= total_pages THEN args.end ELSE total_pages
WindowDecided == pc \in {"aborted", "pages", "site_done"}
NothingWritten == index_links = None /\ DOMAIN page_files = {}
\* the page files that the Prev/Next links of the pages written point to
LinkTargets ==
  LET links == {page_files[n].prev : n \in DOMAIN page_files}
                 \cup {page_files[n].next : n \in DOMAIN page_files}
  IN {l[1] : l \in links \ {None}}

\* C25: with start = max(1, --start) and end = min(--end or total, total),
\* the run aborts before writing anything when start > end; otherwise exactly
\* the pages start..end are generated and index.html links exactly those;
\* and every Prev/Next link of a generated page targets a page generated
\* in the same run.
C25_Original ==
  /\ (WindowDecided /\ AskedStart > AskedEnd) =>
       (pc = "aborted" /\ NothingWritten)
  /\ (WindowDecided /\ AskedStart <= AskedEnd) => pc # "aborted"
  /\ pc = "site_done" =>
       /\ DOMAIN page_files = AskedStart .. AskedEnd
       /\ index_links = write_index(AskedStart, AskedEnd)
       /\ LinkTargets \subseteq DOMAIN page_files

\* What main does guarantee: the run
\* aborts before writing anything when start > end, otherwise exactly the
\* pages start..end are generated, in order, and index.html links exactly
\* those; every Prev/Next link targets a page of the document next to its
\* own page, and a generated one when the window is the whole document.
WindowGenerated ==
  /\ (WindowDecided /\ AskedStart > AskedEnd) =>
       (pc = "aborted" /\ NothingWritten)
  /\ (WindowDecided /\ AskedStart <= AskedEnd) => pc # "aborted"
  /\ pc = "pages" =>
       /\ DOMAIN page_files = AskedStart .. (page_num - 1)
       /\ page_num <= AskedEnd + 1
  /\ pc = "site_done" =>
       /\ DOMAIN page_files = AskedStart .. AskedEnd
       /\ Len(index_links) = AskedEnd - AskedStart + 1
       /\ \A i \in 1 .. Len(index_links) : index_links[i] = AskedStart + i - 1
       /\ \A n \in DOMAIN page_files :
            /\ page_files[n].prev = (IF n = 1 THEN None ELSE <<n - 1>>)
            /\ page_files[n].next = (IF n = total_pages THEN None ELSE <<n + 1>>)
       /\ LinkTargets \subseteq 1 .. total_pages
       /\ (AskedStart = 1 /\ AskedEnd = total_pages)
            => LinkTargets \subseteq DOMAIN page_files

\* pages 2..3 of a 3-page document: page 2 links back to page 1
WindowGeneratedCase ==
  /\ pc = "site_done"
  /\ total_pages = 3
  /\ args = [start |-> 2, end |-> 0]
  /\ DOMAIN page_files = {2, 3}
  /\ index_links = <<2, 3>>
  /\ page_files[2] = [prev |-> <<1>>, next |-> <<3>>]
  /\ page_files[3] = [prev |-> <<2>>, next |-> None]

====
